---- MODULE Spec2Model ----
(***************************************************************************)
(* TOF_aim rev 1.4: a VL53L5CX time-of-flight imager is calibrated in      *)
(* setup(); loop() reads one frame, filters it against the calibration     *)
(* (processMeasuredData), scans the interior zones for the nearest zone    *)
(* that is surrounded by valid zones (scoreZone, validate) and points the  *)
(* animatronic eyes at it (moveEyes, moveEyeLids).                         *)
(***************************************************************************)
EXTENDS Integers, Sequences, FiniteSets, TLC

VARIABLES
    pc,               \* where the firmware is: "start", "frozen", "setup_wait", "setup_ready", "loop"
    scene,            \* what the imager is looking at (the sensor's side of myImager)
    imageResolution,  \* read back from the sensor in setup
    imageWidth,       \* sqrt(imageResolution)
    calibration,      \* int32_t calibration[64]
    measurementData,  \* VL53L5CX_ResultsData: distance_mm[], target_status[]
    tick,             \* outcome of the last loop() pass: "none", "skipped", "processed"
    adjustedData,     \* loop()'s local adjustedData[imageResolution]
    secondTable,      \* loop()'s local secondTable[imageResolution]
    smallestValue,    \* loop()'s local
    focusX,           \* loop()'s local
    focusY,           \* loop()'s local
    calls,            \* the moveEyeLids / moveEyes calls of the last step, in order
    eyeLids,          \* openPct the eyelid servos hold
    eyeX,             \* x the gaze servos hold
    eyeY,             \* y the gaze servos hold
    zoneCall          \* a call of scoreZone and avgdistZone on one location: what they return and read

vars == <<pc, scene, imageResolution, imageWidth, calibration, measurementData, tick,
          adjustedData, secondTable, smallestValue, focusX, focusY, calls,
          eyeLids, eyeX, eyeY, zoneCall>>

(***************************************************************************)
(* Program constants                                                       *)
(***************************************************************************)
NOISE_RANGE == 50
MAX_CALIBRATION == 2000
VALID_SCORE_MINIMUM == 6
CalibrationSize == 64
NoFocus == 0 - 255
InvalidStatus == 0 - 1
OutOfRange == 0 - 2
Background == 0 - 3

Zones == 0 .. (CalibrationSize - 1)

\* an int32_t local of loop(), or a servo position, that nothing has assigned
\* yet: a marker outside every value the firmware computes, never read as a
\* value
Uninit == (0 - 2147483647) - 1

\* an array local of loop() that the pass did not fill
NoGrid == << >>

\* no call of scoreZone or avgdistZone outside the scan of loop()
NoCall == [location |-> Uninit, score |-> Uninit, avgDist |-> Uninit, reads |-> {}]

(***************************************************************************)
(* C arithmetic                                                            *)
(***************************************************************************)
\* the (int16_t) cast of processMeasuredData
ToInt16(v) ==
    LET m == v % 65536
    IN  IF m >= 32768 THEN m - 65536 ELSE m

\* C integer division truncates toward zero
CDiv(a, b) ==
    IF (a >= 0) = (b > 0) THEN (IF a >= 0 THEN a ELSE 0 - a) \div (IF b > 0 THEN b ELSE 0 - b)
    ELSE 0 - ((IF a >= 0 THEN a ELSE 0 - a) \div (IF b > 0 THEN b ELSE 0 - b))

\* the platform's integer map(value, fromLow, fromHigh, toLow, toHigh)
map(value, fromLow, fromHigh, toLow, toHigh) ==
    IF fromHigh = fromLow THEN value
    ELSE CDiv((value - fromLow) * (toHigh - toLow), fromHigh - fromLow) + toLow

\* sqrt() of the resolution, truncated to int
IntSqrt(n) == CHOOSE r \in 0 .. n : r * r <= n /\ (r + 1) * (r + 1) > n

(***************************************************************************)
(* processMeasuredData                                                     *)
(***************************************************************************)
\* variant: the accepted set of the earlier revisions, 5 and 9 only
StatusAcceptedRev03(statusCode) ==
    ~((statusCode # 5) /\ (statusCode # 9))

\* the status test of processMeasuredData: TOF measurement is good
StatusAccepted(statusCode) ==
    ~((statusCode # 5) /\ (statusCode # 9) /\ (statusCode # 6))

\* variant: the range test without the test for a zero reading
IsOutOfRangeNoZero(measuredData) ==
    measuredData > MAX_CALIBRATION

\* the range test of processMeasuredData: data out of range
IsOutOfRange(measuredData) ==
    (measuredData = 0) \/ (measuredData > MAX_CALIBRATION)

\* variant: the noise test with a strict comparison
IsNoiseStrict(temp) == temp < NOISE_RANGE

\* the noise test of processMeasuredData, on temp = |measuredData - calibration[i]|
IsNoise(temp) == temp <= NOISE_RANGE

\* one pass of the for loop of processMeasuredData
AdjustCell(statusCode, measuredData, calib) ==
    IF ~StatusAccepted(statusCode) THEN InvalidStatus
    ELSE IF IsOutOfRange(measuredData) THEN OutOfRange
    ELSE LET d    == measuredData - calib
             temp == IF d < 0 THEN 0 - d ELSE d
         IN  IF IsNoise(temp) THEN Background ELSE ToInt16(measuredData)

\* variant: the for loop runs to i <= imageResolution and writes one entry past
\* the end of adjustedData
processMeasuredDataPastEnd(md, calib, resolution) ==
    [i \in 0 .. resolution |->
        IF i < resolution
        THEN AdjustCell(md.target_status[i], md.distance_mm[i], calib[i])
        ELSE InvalidStatus]

\* the for loop of processMeasuredData: i from 0 while i < imageResolution
processMeasuredData(md, calib, resolution) ==
    [i \in 0 .. (resolution - 1) |->
        AdjustCell(md.target_status[i], md.distance_mm[i], calib[i])]

(***************************************************************************)
(* scoreZone, avgdistZone, validate                                        *)
(***************************************************************************)
\* the edge test shared by scoreZone and avgdistZone
IsEdgeTest(locX, locY, width) ==
    (locX = 0) \/ (locX = width) \/ (locY = 0) \/ (locY = width)

\* the nested for loops of scoreZone (and numZones of avgdistZone), yIndex
\* outer and xIndex inner, both from -1 to 1, each reading
\* loc = ((locY + yIndex) * imageWidth) + (locX + xIndex); score++ when the
\* value at loc is valid
CountValid(locX, locY, dataArray, width) ==
      (IF dataArray[((locY - 1) * width) + (locX - 1)] > 0 THEN 1 ELSE 0)
    + (IF dataArray[((locY - 1) * width) + locX] > 0 THEN 1 ELSE 0)
    + (IF dataArray[((locY - 1) * width) + (locX + 1)] > 0 THEN 1 ELSE 0)
    + (IF dataArray[(locY * width) + (locX - 1)] > 0 THEN 1 ELSE 0)
    + (IF dataArray[(locY * width) + locX] > 0 THEN 1 ELSE 0)
    + (IF dataArray[(locY * width) + (locX + 1)] > 0 THEN 1 ELSE 0)
    + (IF dataArray[((locY + 1) * width) + (locX - 1)] > 0 THEN 1 ELSE 0)
    + (IF dataArray[((locY + 1) * width) + locX] > 0 THEN 1 ELSE 0)
    + (IF dataArray[((locY + 1) * width) + (locX + 1)] > 0 THEN 1 ELSE 0)

\* totalDist += distance[loc] when the value at loc is valid
ValidDistance(value) == IF value > 0 THEN value ELSE 0

\* totalDist of the nested for loops of avgdistZone
SumValid(locX, locY, distance, width) ==
      ValidDistance(distance[((locY - 1) * width) + (locX - 1)])
    + ValidDistance(distance[((locY - 1) * width) + locX])
    + ValidDistance(distance[((locY - 1) * width) + (locX + 1)])
    + ValidDistance(distance[(locY * width) + (locX - 1)])
    + ValidDistance(distance[(locY * width) + locX])
    + ValidDistance(distance[(locY * width) + (locX + 1)])
    + ValidDistance(distance[((locY + 1) * width) + (locX - 1)])
    + ValidDistance(distance[((locY + 1) * width) + locX])
    + ValidDistance(distance[((locY + 1) * width) + (locX + 1)])

\* every loc the nested for loops compute: yIndex and xIndex from -1 to 1
NeighbourLocs(locX, locY, width) ==
    {((locY + yIndex) * width) + (locX + xIndex) : xIndex \in {-1, 0, 1}, yIndex \in {-1, 0, 1}}

\* the indices of dataArray that scoreZone reads
ScoreReads(location, width) ==
    IF IsEdgeTest(location % width, location \div width, width) THEN {}
    ELSE NeighbourLocs(location % width, location \div width, width)

\* the indices of distance that avgdistZone reads: distance[location] on every
\* path, the neighbourhood when the edge test fails and distance[location] > 0
AvgReads(location, distance, width) ==
    {location} \cup
    (IF ~IsEdgeTest(location % width, location \div width, width) /\ distance[location] > 0
     THEN NeighbourLocs(location % width, location \div width, width)
     ELSE {})

scoreZone(location, dataArray, width) ==
    LET locY == location \div width
        locX == location % width
    IN  IF IsEdgeTest(locX, locY, width) THEN 0
        ELSE CountValid(locX, locY, dataArray, width)

avgdistZone(location, distance, width) ==
    LET locY == location \div width
        locX == location % width
    IN  IF IsEdgeTest(locX, locY, width) THEN distance[location]
        ELSE IF distance[location] > 0
             THEN CDiv(SumValid(locX, locY, distance, width),
                       CountValid(locX, locY, distance, width))
             ELSE distance[location]

\* variants: the threshold of the earlier revision (8), and one too low (5)
validateRev09(score) == score >= 8
validateLow(score) == score >= VALID_SCORE_MINIMUM - 1

validate(score) == score >= VALID_SCORE_MINIMUM

(***************************************************************************)
(* The scan of loop(): the nearest significant interior zone               *)
(***************************************************************************)
\* the bounds of both for loops: 1 <= x, y < imageWidth - 1
ScanFirst == 1
ScanLast(width) == width - 2

\* variant: a zone as near as the best so far also replaces it
IsNearerOrEqual(value, smallest) == value <= smallest

\* variant: compares with the constant, not with the best so far
IsNearerThanMax(value, smallest) == value < MAX_CALIBRATION

\* the second conjunct of the focus test: nearer than the best so far
IsNearer(value, smallest) == value < smallest

\* the test for the smallest value that is a significant zone
FocusTest(value, smallest, score) ==
    (value > 0) /\ IsNearer(value, smallest) /\ validate(score)

\* the number of zones the two for loops visit
ScanCount(width) ==
    IF ScanLast(width) < ScanFirst THEN 0
    ELSE (ScanLast(width) - ScanFirst + 1) * (ScanLast(width) - ScanFirst + 1)

\* the x and y of the k-th pass (k = 1 first): y outer, x inner, both increasing
ScanX(k, width) == ScanFirst + ((k - 1) % (ScanLast(width) - ScanFirst + 1))
ScanY(k, width) == ScanFirst + ((k - 1) \div (ScanLast(width) - ScanFirst + 1))

\* variant: the findings are not reset, the scan starts from those of the pass
\* before
NoFindingsKept ==
    IF tick # "processed"
    THEN [smallestValue |-> MAX_CALIBRATION, focusX |-> NoFocus, focusY |-> NoFocus]
    ELSE [smallestValue |-> smallestValue, focusX |-> focusX, focusY |-> focusY]

\* the initial findings of loop()
NoFindings == [smallestValue |-> MAX_CALIBRATION, focusX |-> NoFocus, focusY |-> NoFocus]

\* variant: records zero-based interior coordinates
FoundZeroBased(x, y, value) == [smallestValue |-> value, focusX |-> x - 1, focusY |-> y - 1]

\* the assignments of the if body at (x, y)
Found(x, y, value) == [smallestValue |-> value, focusX |-> x, focusY |-> y]

\* the passes k, k+1, ... of the scan, entered with the findings so far
RECURSIVE ScanFrom(_, _, _, _)
ScanFrom(k, best, adjusted, width) ==
    IF k > ScanCount(width) THEN best
    ELSE IF FocusTest(adjusted[ScanY(k, width) * width + ScanX(k, width)],
                      best.smallestValue,
                      scoreZone(ScanY(k, width) * width + ScanX(k, width), adjusted, width))
         THEN ScanFrom(k + 1,
                       Found(ScanX(k, width), ScanY(k, width),
                             adjusted[ScanY(k, width) * width + ScanX(k, width)]),
                       adjusted, width)
         ELSE ScanFrom(k + 1, best, adjusted, width)

\* the scan of loop(), entered with the initial findings
FocusScan(adjusted, width) == ScanFrom(1, NoFindings, adjusted, width)

\* what the scan leaves in secondTable: the average distance of every zone
\* visited, 0 elsewhere
IsScanned(i, width) ==
    /\ ScanFirst <= i % width /\ i % width <= ScanLast(width)
    /\ ScanFirst <= i \div width /\ i \div width <= ScanLast(width)

AverageTable(adjusted, resolution, width) ==
    [i \in 0 .. (resolution - 1) |->
        IF IsScanned(i, width) THEN avgdistZone(i, adjusted, width) ELSE 0]

(***************************************************************************)
(* The eye decision of loop()                                              *)
(***************************************************************************)
\* variant: takes the first interior row and column for "no focus"
HasFocusAboveOne(fx, fy) == (fx > 1) /\ (fy > 1)

\* the test of the eye decision
HasFocus(fx, fy) == (fx > 0) /\ (fy > 0)

\* variant: the eye decision before rev 1.4, which left the eyelids alone
EyeCallsRev13(fx, fy) ==
    IF (fx > 0) /\ (fy > 0)
    THEN << <<"moveEyes", map(fx, 1, 6, 0, 100), map(fy, 1, 6, 100, 0)>> >>
    ELSE << <<"moveEyes", 50, 50>> >>

\* variant: maps the focus from 1..5, one short of the last interior zone
EyeCallsShortRange(fx, fy) ==
    IF (fx > 0) /\ (fy > 0)
    THEN << <<"moveEyeLids", 100>>,
            <<"moveEyes", map(fx, 1, 5, 0, 100), map(fy, 1, 5, 100, 0)>> >>
    ELSE << <<"moveEyeLids", 0>>, <<"moveEyes", 50, 50>> >>

\* variant: moves the held gaze a tenth of the way to the mapped focus
EyeCallsEased(fx, fy) ==
    IF (fx > 0) /\ (fy > 0)
    THEN << <<"moveEyeLids", 100>>,
            <<"moveEyes", eyeX + CDiv(map(fx, 1, 6, 0, 100) - eyeX, 10),
                          eyeY + CDiv(map(fy, 1, 6, 100, 0) - eyeY, 10)>> >>
    ELSE << <<"moveEyeLids", 0>>, <<"moveEyes", 50, 50>> >>

\* the calls loop() makes once the focus is known: <<name, args...>>
EyeCalls(fx, fy) ==
    IF HasFocus(fx, fy)
    THEN << <<"moveEyeLids", 100>>,
            <<"moveEyes", map(fx, 1, 6, 0, 100), map(fy, 1, 6, 100, 0)>> >>
    ELSE << <<"moveEyeLids", 0>>, <<"moveEyes", 50, 50>> >>

\* the calls at the end of setup()
SetupCalls ==
    << <<"moveEyeLids", 100>>, <<"moveEyes", 0, 0>>, <<"moveEyes", 50, 50>>,
       <<"moveEyes", 100, 100>>, <<"moveEyeLids", 0>> >>

RECURSIVE LastLids(_, _)
LastLids(cs, held) ==
    IF cs = << >> THEN held
    ELSE LastLids(Tail(cs), IF Head(cs)[1] = "moveEyeLids" THEN Head(cs)[2] ELSE held)

RECURSIVE LastEyes(_, _)
LastEyes(cs, held) ==
    IF cs = << >> THEN held
    ELSE LastEyes(Tail(cs),
                  IF Head(cs)[1] = "moveEyes" THEN <<Head(cs)[2], Head(cs)[3]>> ELSE held)

(***************************************************************************)
(* The sensor: what the imager reports for the scene in front of it.       *)
(* distance_mm is taken as a non-negative reading.                         *)
(***************************************************************************)
\* bounds of the explored scenes: the status codes 0 .. MaxStatus (and 255),
\* and the number of objects in front of the wall
MaxStatus == 10
MaxSpots == 1

\* target_status codes: the low codes and 255 ("no target")
StatusCodes == (0 .. MaxStatus) \cup {255}

\* distance_mm readings: zero, the range limits, and both sides of the noise
\* band around calibrations of 1000 and 2000
DistanceSeq == <<0, 1, 949, 950, 1000, 1050, 1051, 1949, 1950, 2000, 2001>>
Distances == {DistanceSeq[k] : k \in DOMAIN DistanceSeq}

Raw(s, d) == [s |-> s, d |-> d]

\* a wall filling the field of view
FlatScene(raw) == [base |-> raw, cells |-> << >>]

\* the wall in front of which objects are placed, and the objects' readings
RoomBase == Raw(5, 1000)
SpotValues == {Raw(5, 150), Raw(0, 150)}

\* the zones one sixteenth of the field of view covers at this resolution
Covers(c, width) ==
    IF width = 4 THEN {c}
    ELSE LET cx == c % 4
             cy == c \div 4
         IN  {(2 * cy + dy) * width + (2 * cx + dx) : dx \in {0, 1}, dy \in {0, 1}}

Restrict(f, S) == [i \in S |-> f[i]]

PlaceSpot(sc, c, v, width) ==
    [sc EXCEPT !.cells =
        [i \in (DOMAIN sc.cells) \cup Covers(c, width) |->
            IF i \in Covers(c, width) THEN v ELSE sc.cells[i]]]

ClearSpot(sc, c, width) ==
    [sc EXCEPT !.cells = Restrict(sc.cells, (DOMAIN sc.cells) \ Covers(c, width))]

SpotCount(sc, width) == Cardinality(DOMAIN sc.cells) \div ((width \div 4) * (width \div 4))

\* the status code and the distance explored after this one
NextStatus(s) == IF s = 255 THEN 0 ELSE IF s >= MaxStatus THEN 255 ELSE s + 1
NextDistance(d) ==
    LET k == CHOOSE j \in DOMAIN DistanceSeq : DistanceSeq[j] = d
    IN  DistanceSeq[(k % Len(DistanceSeq)) + 1]

\* the scenes the next frame can show: the reading of the bare wall changes,
\* or one object appears, changes or leaves
NextScenes(sc, width) ==
    (IF sc.cells = << >> /\ sc.base.d \in Distances
     THEN {FlatScene(Raw(NextStatus(sc.base.s), sc.base.d)),
           FlatScene(Raw(sc.base.s, NextDistance(sc.base.d)))}
     ELSE {})
    \cup {t \in {PlaceSpot(sc, c, v, width) :
                    c \in IF sc.base = RoomBase THEN 0 .. 15 ELSE {}, v \in SpotValues} :
             SpotCount(t, width) <= MaxSpots}
    \cup {ClearSpot(sc, c, width) : c \in IF sc.cells = << >> THEN {} ELSE 0 .. 15}

\* the frame getRangingData delivers for a scene; at 4x4 only the first 16
\* entries of the arrays are written
Reading(sc, i, resolution) ==
    IF i \in DOMAIN sc.cells THEN sc.cells[i]
    ELSE IF i < resolution THEN sc.base
    ELSE Raw(0, 0)

Frame(sc, resolution) ==
    [distance_mm   |-> [i \in Zones |-> Reading(sc, i, resolution).d],
     target_status |-> [i \in Zones |-> Reading(sc, i, resolution).s]]

\* the scenes the imager can be looking at when setup() calibrates
InitScenes == {FlatScene(Raw(s, d)) : s \in {5, 255}, d \in {0, 1000, 2000, 2001}}

(***************************************************************************)
(* The two scenarios: an 8x8 imager calibrated on an empty room at 2000 mm *)
(* then sees an object at (4,4), 300 mm, and readings around it            *)
(***************************************************************************)
EmptyRoom == FlatScene(Raw(5, 2000))

BlockCentre == 4 * 8 + 4
BlockZones == {(4 + dy) * 8 + (4 + dx) : dx \in {-1, 0, 1}, dy \in {-1, 0, 1}}
BlockNeighbours == BlockZones \ {BlockCentre}

\* the 3x3 block with a valid reading in every zone
BlockDistances == {250, 300, 350}
BlockScenes ==
    {[base |-> Raw(5, 2000),
      cells |-> [z \in BlockZones |->
                    IF z = BlockCentre THEN Raw(5, 300) ELSE Raw(5, f[z])]] :
        f \in [BlockNeighbours -> BlockDistances]}

\* the 3x3 block with 4 valid neighbours; the others report no target
SparseDistances == {250, 350}
SparseScenes ==
    UNION {{[base |-> Raw(5, 2000),
             cells |-> [z \in BlockZones |->
                          IF z = BlockCentre THEN Raw(5, 300)
                          ELSE IF z \in V THEN Raw(5, f[z]) ELSE Raw(255, 0)]] :
               f \in [V -> SparseDistances]} :
           V \in {S \in SUBSET BlockNeighbours : Cardinality(S) = 4}}

\* the object appears in the empty room; the scenario ends with that frame
ScenarioScenes(sc) ==
    IF sc = EmptyRoom THEN BlockScenes \cup SparseScenes ELSE {}

(***************************************************************************)
(* setup()                                                                 *)
(***************************************************************************)
\* the clamp of the calibration loop
ClampCalibration(d) ==
    IF (d = 0) \/ (d > MAX_CALIBRATION) THEN MAX_CALIBRATION ELSE d

\* the calibration loop of setup()
Calibrate(md) == [i \in Zones |-> ClampCalibration(md.distance_mm[i])]

Init ==
    /\ pc = "start"
    /\ scene \in InitScenes
    /\ imageResolution = 0
    /\ imageWidth = 0
    /\ calibration = [i \in Zones |-> 0]
    /\ measurementData = [distance_mm   |-> [i \in Zones |-> 0],
                          target_status |-> [i \in Zones |-> 0]]
    /\ tick = "none"
    /\ adjustedData = NoGrid
    /\ secondTable = NoGrid
    /\ smallestValue = Uninit
    /\ focusX = Uninit
    /\ focusY = Uninit
    /\ calls = << >>
    /\ eyeLids = Uninit
    /\ eyeX = Uninit
    /\ eyeY = Uninit
    /\ zoneCall = NoCall

\* setup() up to startRanging(): the sensor is found or the firmware freezes;
\* the resolution is read back from the sensor
SetupBeginWith(Resolutions) ==
    /\ pc = "start"
    /\ \E found \in BOOLEAN, resolution \in Resolutions :
          IF found
          THEN /\ pc' = "setup_wait"
               /\ imageResolution' = resolution
               /\ imageWidth' = IntSqrt(resolution)
          ELSE /\ pc' = "frozen"
               /\ UNCHANGED <<imageResolution, imageWidth>>
    /\ UNCHANGED <<scene, calibration, measurementData, tick, adjustedData, secondTable,
                   smallestValue, focusX, focusY, calls, eyeLids, eyeX, eyeY, zoneCall>>

\* getResolution() reads back 4x4 or 8x8
SetupBegin == SetupBeginWith({16, 64})

\* variant: the polling gives up after a while and setup() goes on without a
\* ready frame and without a calibration
SetupWaitTimesOut ==
    /\ pc = "setup_wait"
    /\ \/ UNCHANGED vars
       \/ /\ pc' = "loop"
          /\ calls' = SetupCalls
          /\ eyeLids' = LastLids(SetupCalls, eyeLids)
          /\ eyeX' = LastEyes(SetupCalls, <<eyeX, eyeY>>)[1]
          /\ eyeY' = LastEyes(SetupCalls, <<eyeX, eyeY>>)[2]
          /\ UNCHANGED <<scene, imageResolution, imageWidth, calibration, measurementData,
                         tick, adjustedData, secondTable, smallestValue, focusX, focusY,
                         zoneCall>>

\* one pass of the do-while of setup() with isDataReady() false
SetupWait ==
    /\ pc = "setup_wait"
    /\ UNCHANGED vars

\* the pass of the do-while in which isDataReady() is true: the loop is left
SetupReady ==
    /\ pc = "setup_wait"
    /\ pc' = "setup_ready"
    /\ UNCHANGED <<scene, imageResolution, imageWidth, calibration, measurementData,
                   tick, adjustedData, secondTable, smallestValue, focusX, focusY,
                   calls, eyeLids, eyeX, eyeY, zoneCall>>

\* the rest of setup() once the do-while is left
SetupCalibrate ==
    /\ pc = "setup_ready"
    /\ \E ok \in BOOLEAN :
          IF ok
          THEN /\ measurementData' = Frame(scene, imageResolution)
               /\ calibration' = Calibrate(Frame(scene, imageResolution))
          ELSE UNCHANGED <<measurementData, calibration>>
    /\ calls' = SetupCalls
    /\ eyeLids' = LastLids(SetupCalls, eyeLids)
    /\ eyeX' = LastEyes(SetupCalls, <<eyeX, eyeY>>)[1]
    /\ eyeY' = LastEyes(SetupCalls, <<eyeX, eyeY>>)[2]
    /\ pc' = "loop"
    /\ UNCHANGED <<scene, imageResolution, imageWidth, tick, adjustedData, secondTable,
                   smallestValue, focusX, focusY, zoneCall>>

(***************************************************************************)
(* loop()                                                                  *)
(***************************************************************************)
\* variant: the else branch of the eye decision also runs when no frame was
\* read, so a pass without a frame closes the eyelids and centres the eyes
LoopSkipGoesIdle ==
    /\ tick' = "skipped"
    /\ adjustedData' = NoGrid
    /\ secondTable' = [i \in 0 .. (imageResolution - 1) |-> 0]
    /\ smallestValue' = Uninit
    /\ focusX' = Uninit
    /\ focusY' = Uninit
    /\ calls' = << <<"moveEyeLids", 0>>, <<"moveEyes", 50, 50>> >>
    /\ eyeLids' = 0
    /\ eyeX' = 50
    /\ eyeY' = 50
    /\ UNCHANGED <<pc, scene, imageResolution, imageWidth, calibration, measurementData,
                   zoneCall>>

\* a pass in which isDataReady() is false or getRangingData() fails
LoopSkip ==
    /\ tick' = "skipped"
    /\ adjustedData' = NoGrid
    /\ secondTable' = [i \in 0 .. (imageResolution - 1) |-> 0]
    /\ smallestValue' = Uninit
    /\ focusX' = Uninit
    /\ focusY' = Uninit
    /\ calls' = << >>
    /\ UNCHANGED <<pc, scene, imageResolution, imageWidth, calibration, measurementData,
                   eyeLids, eyeX, eyeY, zoneCall>>

\* what a pass computes from the adjusted data
Findings(adjusted, resolution, width) ==
    [adjustedData |-> adjusted,
     secondTable  |-> AverageTable(adjusted, resolution, width),
     focus        |-> FocusScan(adjusted, width)]

\* what a pass computes from the frame it read
ProcessFrame(md, calib, resolution, width) ==
    Findings(processMeasuredData(md, calib, resolution), resolution, width)

\* variant: a processed pass also takes its frame as the new calibration
LoopAssignRecalibrates(md, r) ==
    /\ measurementData' = md
    /\ tick' = "processed"
    /\ adjustedData' = r.adjustedData
    /\ secondTable' = r.secondTable
    /\ smallestValue' = r.focus.smallestValue
    /\ focusX' = r.focus.focusX
    /\ focusY' = r.focus.focusY
    /\ calls' = EyeCalls(r.focus.focusX, r.focus.focusY)
    /\ eyeLids' = LastLids(calls', eyeLids)
    /\ eyeX' = LastEyes(calls', <<eyeX, eyeY>>)[1]
    /\ eyeY' = LastEyes(calls', <<eyeX, eyeY>>)[2]
    /\ calibration' = Calibrate(md)
    /\ UNCHANGED <<pc, imageResolution, imageWidth, zoneCall>>

\* the assignments of a pass that read frame md and computed r
LoopAssign(md, r) ==
    /\ measurementData' = md
    /\ tick' = "processed"
    /\ adjustedData' = r.adjustedData
    /\ secondTable' = r.secondTable
    /\ smallestValue' = r.focus.smallestValue
    /\ focusX' = r.focus.focusX
    /\ focusY' = r.focus.focusY
    /\ calls' = EyeCalls(r.focus.focusX, r.focus.focusY)
    /\ eyeLids' = LastLids(calls', eyeLids)
    /\ eyeX' = LastEyes(calls', <<eyeX, eyeY>>)[1]
    /\ eyeY' = LastEyes(calls', <<eyeX, eyeY>>)[2]
    /\ UNCHANGED <<pc, imageResolution, imageWidth, calibration, zoneCall>>

\* the frame that is read and its processing
LoopRead(md) ==
    LoopAssign(md, ProcessFrame(md, calibration, imageResolution, imageWidth))

\* a pass that reads the frame of scene sc
LoopProcess(sc) ==
    /\ scene' = sc
    /\ LoopRead(Frame(sc, imageResolution))

\* loop(), the next frame showing one of Scenes
LoopWith(Scenes) ==
    /\ pc = "loop"
    /\ \E ready \in BOOLEAN, ok \in BOOLEAN :
          IF ready /\ ok
          THEN \E sc \in Scenes : LoopProcess(sc)
          ELSE LoopSkip

Loop == LoopWith(NextScenes(scene, imageWidth))

Next == SetupBegin \/ SetupWait \/ SetupReady \/ SetupCalibrate \/ Loop

Spec == Init /\ [][Next]_vars

(***************************************************************************)
(* The scenarios' specification: 8x8, calibrated on the empty room         *)
(***************************************************************************)
InitScenario == Init /\ scene = EmptyRoom

SetupBegin8 == SetupBeginWith({64})

LoopScenario == LoopWith(ScenarioScenes(scene))

NextScenario == SetupBegin8 \/ SetupWait \/ SetupReady \/ SetupCalibrate \/ LoopScenario

SpecScenario == InitScenario /\ [][NextScenario]_vars

(***************************************************************************)
(* scoreZone and avgdistZone called on any location of the grid a pass of  *)
(* loop() produced                                                         *)
(***************************************************************************)
\* what an int32_t past the end of the array can hold when it is read: a value
\* that is not valid and one that is
Garbage == {Background, 300}

\* the memory a read of dataArray[loc] sees: the array, then whatever follows
\* it; three consecutive locations past the end hold independent values
Memory(array, beyond, resolution, width) ==
    [i \in 0 .. (resolution + width) |-> IF i < resolution THEN array[i] ELSE beyond[i % 3]]

\* what the two functions return and read for a location, on this memory
ZoneResult(location, memory, width) ==
    [location |-> location,
     score    |-> scoreZone(location, memory, width),
     avgDist  |-> avgdistZone(location, memory, width),
     reads    |-> ScoreReads(location, width)]

\* one call of each function on a location of the adjusted data of the pass;
\* the run ends with it
ZoneCall ==
    /\ pc = "loop"
    /\ tick = "processed"
    /\ zoneCall = NoCall
    /\ \E location \in 0 .. (imageResolution - 1), beyond \in [0 .. 2 -> Garbage] :
          zoneCall' = ZoneResult(location,
                                 Memory(adjustedData, beyond, imageResolution, imageWidth),
                                 imageWidth)
    /\ UNCHANGED <<pc, scene, imageResolution, imageWidth, calibration, measurementData,
                   tick, adjustedData, secondTable, smallestValue, focusX, focusY, calls,
                   eyeLids, eyeX, eyeY>>

LoopBeforeCall == zoneCall = NoCall /\ Loop

NextZone ==
    SetupBegin \/ SetupWait \/ SetupReady \/ SetupCalibrate \/ LoopBeforeCall \/ ZoneCall

SpecZone == Init /\ [][NextZone]_vars

(***************************************************************************)
(* Vocabulary of the properties, read off the state                        *)
(***************************************************************************)
Processed == tick = "processed"
Cells == 0 .. (imageResolution - 1)
AcceptedStatus == {5, 6, 9}
Sentinels == {InvalidStatus, OutOfRange, Background}
AbsDiff(a, b) == IF a >= b THEN a - b ELSE b - a

XOf(i) == i % imageWidth
YOf(i) == i \div imageWidth
ZoneOf(x, y) == y * imageWidth + x
Interior(i) ==
    /\ 1 <= XOf(i) /\ XOf(i) <= imageWidth - 2
    /\ 1 <= YOf(i) /\ YOf(i) <= imageWidth - 2
InteriorCells == {i \in Cells : Interior(i)}

\* the 3x3 neighbourhood of an interior zone, itself included
Neighbourhood(i) == {i + dy * imageWidth + dx : dx \in {-1, 0, 1}, dy \in {-1, 0, 1}}
NeighbourhoodScore(i) == Cardinality({j \in Neighbourhood(i) : adjustedData[j] > 0})

\* a candidate of the Focus Selector
Candidate(i) ==
    /\ Interior(i)
    /\ adjustedData[i] > 0
    /\ NeighbourhoodScore(i) >= 6
Candidates == {i \in InteriorCells : Candidate(i)}

PoiNone == focusX = NoFocus /\ focusY = NoFocus
PoiAt(x, y, d) == focusX = x /\ focusY = y /\ smallestValue = d

IdleCalls == << <<"moveEyeLids", 0>>, <<"moveEyes", 50, 50>> >>

C4_EdgeExclusion ==
    Processed =>
        \/ PoiNone
        \/ /\ 1 <= focusX /\ focusX <= imageWidth - 2
           /\ 1 <= focusY /\ focusY <= imageWidth - 2

\* C4 witness: a POI is returned although a zone on the edge is valid and
\* strictly nearer than it.
C4_Witness ==
    /\ Processed
    /\ ~PoiNone
    /\ \E i \in Cells :
          /\ ~Interior(i)
          /\ adjustedData[i] > 0
          /\ adjustedData[i] < smallestValue

\* C5: nearest wins: a returned POI holds the adjusted value of its own zone,
\* and no candidate, earlier or later in raster order, is nearer.
C5_NearestWins ==
    (Processed /\ ~PoiNone) =>
        /\ ZoneOf(focusX, focusY) \in Cells
        /\ smallestValue = adjustedData[ZoneOf(focusX, focusY)]
        /\ \A c \in Candidates : smallestValue <= adjustedData[c]

\* C5 witness: the POI is a candidate that comes after a farther candidate and
\* before another farther candidate in raster order.
C5_Witness ==
    /\ Processed
    /\ ~PoiNone
    /\ \E c \in Candidates :
          c < ZoneOf(focusX, focusY) /\ adjustedData[c] > smallestValue
    /\ \E c \in Candidates :
          c > ZoneOf(focusX, focusY) /\ adjustedData[c] > smallestValue

\* C6: the POI is "none" if and only if no candidate exists (a candidate at
\* exactly 2000 mm included); stated for calibrations within 1 .. 2000.
C6_NoneIffNoCandidate ==
    (Processed /\ \A i \in Zones : calibration[i] \in 1 .. MAX_CALIBRATION)
        => (PoiNone <=> Candidates = {})

(***************************************************************************)
(* C7, C8: the two scenarios                                               *)
(***************************************************************************)
\* the frame and calibration both scenarios share: 8x8, calibration 2000
\* everywhere, the centre (4,4) at 300 mm with status 5, and every zone
\* outside the 3x3 block at 2000 mm with status 5
ScenarioFrame ==
    /\ Processed
    /\ imageWidth = 8
    /\ \A i \in Zones : calibration[i] = 2000
    /\ measurementData.distance_mm[BlockCentre] = 300
    /\ measurementData.target_status[BlockCentre] = 5
    /\ \A i \in Cells \ BlockZones :
          /\ measurementData.distance_mm[i] = 2000
          /\ measurementData.target_status[i] = 5

ValidNeighbours ==
    {z \in BlockNeighbours :
        /\ measurementData.target_status[z] = 5
        /\ measurementData.distance_mm[z] \in 250 .. 350}

\* the full block: all 8 neighbours valid, within [250,350]
BlockFrame == ScenarioFrame /\ ValidNeighbours = BlockNeighbours

\* the sparse block: 4 neighbours valid, the other 4 INVALID_STATUS
SparseFrame ==
    /\ ScenarioFrame
    /\ Cardinality(ValidNeighbours) = 4
    /\ \A z \in BlockNeighbours \ ValidNeighbours :
          measurementData.target_status[z] \notin AcceptedStatus

\* the adjusted grid is BACKGROUND outside the block and the distances inside
BlockGrid ==
    \A i \in Cells :
        adjustedData[i] =
            IF i \in BlockZones THEN measurementData.distance_mm[i] ELSE Background

\* the orthogonal neighbours of (4,4): (4,3) and (3,4) come before it in the
\* scan, (5,4) and (4,5) after it
OrthBefore == {ZoneOf(4, 3), ZoneOf(3, 4)}
OrthAfter == {ZoneOf(5, 4), ZoneOf(4, 5)}

\* no orthogonal neighbour takes the focus from (4,4)
CentreWins ==
    /\ \A z \in OrthBefore : measurementData.distance_mm[z] > 300
    /\ \A z \in OrthAfter : measurementData.distance_mm[z] >= 300

\* C7 as stated: for every choice of the 8 neighbour distances the adjusted
\* grid is the block on BACKGROUND and the POI is (4,4,300).
C7_BlockPoiIsCentre ==
    BlockFrame => (BlockGrid /\ PoiAt(4, 4, 300))

\* C7 amended: the adjusted grid is the block on BACKGROUND and (4,4) has score
\* 9; the POI is (4,4,300) when (4,3) and (3,4) are farther than 300 mm and
\* (5,4) and (4,5) are at 300 mm or farther, and otherwise it is the nearest of
\* these four orthogonal neighbours, at 300 mm or nearer.
C7_BlockPoiAmended ==
    BlockFrame =>
        /\ BlockGrid
        /\ NeighbourhoodScore(BlockCentre) = 9
        /\ CentreWins => PoiAt(4, 4, 300)
        /\ ~CentreWins =>
              /\ ~PoiNone
              /\ ZoneOf(focusX, focusY) \in OrthBefore \cup OrthAfter
              /\ smallestValue = measurementData.distance_mm[ZoneOf(focusX, focusY)]
              /\ smallestValue <= 300
              /\ \A z \in OrthBefore \cup OrthAfter :
                    smallestValue <= measurementData.distance_mm[z]

\* C7 witness: the POI is (4,4,300) although a diagonal neighbour is nearer.
C7_Witness ==
    /\ BlockFrame
    /\ PoiAt(4, 4, 300)
    /\ \E z \in BlockNeighbours \ (OrthBefore \cup OrthAfter) :
          measurementData.distance_mm[z] < 300

\* C8: with only 4 valid neighbours, whichever they are, (4,4) is valid but
\* scores 5 and no POI is returned.
C8_SparseNoPoi ==
    SparseFrame =>
        /\ adjustedData[BlockCentre] = 300
        /\ NeighbourhoodScore(BlockCentre) = 5
        /\ \A z \in BlockNeighbours \ ValidNeighbours : adjustedData[z] = InvalidStatus
        /\ PoiNone

\* C8 witness: a sparse frame in which the valid neighbours are the four
\* orthogonal ones, processed with no POI.
C8_Witness ==
    /\ SparseFrame
    /\ ValidNeighbours = OrthBefore \cup OrthAfter
    /\ PoiNone

(***************************************************************************)
(* C9: no candidate, eyes idle                                             *)
(***************************************************************************)
\* C9: when every cell of the adjusted grid is <= 0 the POI is "none" and the
\* same pass calls moveEyeLids(0) and moveEyes(50,50), which the servos then
\* hold.
C9_NoCandidateFallback ==
    (Processed /\ \A i \in Cells : adjustedData[i] <= 0) =>
        /\ PoiNone
        /\ \E k \in DOMAIN calls : calls[k] = <<"moveEyeLids", 0>>
        /\ \E k \in DOMAIN calls : calls[k] = <<"moveEyes", 50, 50>>
        /\ \A k \in DOMAIN calls : calls[k] \in {<<"moveEyeLids", 0>>, <<"moveEyes", 50, 50>>}
        /\ eyeLids = 0 /\ eyeX = 50 /\ eyeY = 50

\* C9 witness: a frame of sentinels only that mixes INVALID_STATUS and
\* BACKGROUND, processed with the eyes idle at its end.
C9_Witness ==
    /\ Processed
    /\ \A i \in Cells : adjustedData[i] <= 0
    /\ \E i \in Cells : adjustedData[i] = InvalidStatus
    /\ \E i \in Cells : adjustedData[i] = Background
    /\ calls = IdleCalls

(***************************************************************************)
(* C10: the calibration after setup()                                      *)
(***************************************************************************)
\* C10: once setup() has finished, every calibration cell is in 1 .. 2000,
\* whatever the startup read did.
C10_CalibrationRange ==
    (pc = "loop") => \A i \in Zones : calibration[i] \in 1 .. MAX_CALIBRATION

(***************************************************************************)
(* C11 .. C13: the eye decision                                            *)
(***************************************************************************)
\* xPos and yPos of the eye decision, for the focus of the last pass
PanTarget == map(focusX, 1, 6, 0, 100)
TiltTarget == map(focusY, 1, 6, 100, 0)

\* a pass of loop() that processes a frame and finds a focus
TrackingStep == pc = "loop" /\ tick' = "processed" /\ ~PoiNone'

StrictlyBetween(p, a, b) == (a < p /\ p < b) \/ (b < p /\ p < a)

C12_MapOfInterior ==
    (Processed /\ ~PoiNone) =>
        /\ eyeX = map(focusX, 1, imageWidth - 2, 0, 100)
        /\ eyeY = map(focusY, 1, imageWidth - 2, 100, 0)

\* the two outcomes of the eye decision, read off the calls of the last pass
\* and what the servos hold after it
Tracking ==
    /\ Len(calls) = 2
    /\ calls[1] = <<"moveEyeLids", 100>>
    /\ calls[2] = <<"moveEyes", eyeX, eyeY>>
    /\ eyeLids = 100
Idle ==
    /\ calls = IdleCalls
    /\ eyeLids = 0 /\ eyeX = 50 /\ eyeY = 50

\* C13: after every processed frame the eyes are Tracking if and only if that
\* frame's POI is not "none" and Idle otherwise, whatever the pass before did;
\* the test focusX > 0 && focusY > 0 agrees with "the POI is not none".
C13_NoHysteresis ==
    Processed =>
        /\ ((focusX > 0) /\ (focusY > 0)) <=> ~PoiNone
        /\ ~PoiNone => (Tracking /\ ~Idle)
        /\ PoiNone => (Idle /\ ~Tracking)

\* C13 witness: a POI in the first interior column, where the test focusX > 0
\* is nearest to failing, with the eyes Tracking.
C13_Witness ==
    /\ Processed
    /\ ~PoiNone
    /\ focusX = 1
    /\ Tracking

(***************************************************************************)
(* C14 .. C16: what a pass of loop() leaves alone                          *)
(***************************************************************************)
\* a pass of loop() in which no frame was read
SkippedStep == pc = "loop" /\ tick' = "skipped"

\* C14: a pass in which isDataReady() is false or getRangingData() fails
\* produces no adjusted grid and no POI, calls neither moveEyes nor
\* moveEyeLids, leaves the calibration and the held eye position as they were,
\* and the loop goes on polling.
C14_SkippedTick ==
    [][SkippedStep =>
          /\ adjustedData' = NoGrid
          /\ focusX' = Uninit /\ focusY' = Uninit /\ smallestValue' = Uninit
          /\ calls' = << >>
          /\ calibration' = calibration
          /\ eyeLids' = eyeLids /\ eyeX' = eyeX /\ eyeY' = eyeY
          /\ pc' = "loop"]_vars

\* C14 witness: after a skipped pass the eyes still hold the open lids and the
\* off-centre gaze an earlier pass with a focus gave them.
C14_Witness ==
    /\ pc = "loop"
    /\ tick = "skipped"
    /\ calls = << >>
    /\ eyeLids = 100
    /\ <<eyeX, eyeY>> # <<50, 50>>

\* the POI as a function of the raw frame and the calibration alone: a zone
\* reads valid, scores, and is eligible without reference to anything a pass
\* computed
RawValid(i) ==
    /\ measurementData.target_status[i] \in AcceptedStatus
    /\ measurementData.distance_mm[i] \in 1 .. MAX_CALIBRATION
    /\ AbsDiff(measurementData.distance_mm[i], calibration[i]) > NOISE_RANGE
RawScore(i) == Cardinality({j \in Neighbourhood(i) : RawValid(j)})
RawEligible ==
    {i \in InteriorCells :
        /\ RawValid(i)
        /\ RawScore(i) >= VALID_SCORE_MINIMUM
        /\ measurementData.distance_mm[i] < MAX_CALIBRATION}
RawNearest ==
    CHOOSE c \in RawEligible :
        \A e \in RawEligible :
            \/ measurementData.distance_mm[c] < measurementData.distance_mm[e]
            \/ (measurementData.distance_mm[c] = measurementData.distance_mm[e] /\ c <= e)
FramePoi ==
    IF RawEligible = {} THEN <<NoFocus, NoFocus, MAX_CALIBRATION>>
    ELSE <<XOf(RawNearest), YOf(RawNearest), measurementData.distance_mm[RawNearest]>>

\* C15: the POI of a processed frame is a function of that raw frame and the
\* calibration only: it is the same whatever frames and POIs came before.
C15_PoiMemoryless ==
    Processed => <<focusX, focusY, smallestValue>> = FramePoi

\* C15 witness: the POI is the wall at 1000 mm, farther than the 150 mm object
\* and the 950 mm wall of the frames that can precede it.
C15_Witness ==
    /\ Processed
    /\ ~PoiNone
    /\ smallestValue = 1000
    /\ <<focusX, focusY, smallestValue>> = FramePoi

\* C16: no pass of loop() changes a cell of the calibration, whether or not a
\* frame was read and whether or not a focus was found; the calibration
\* changes only in setup(), after the wait for the first frame.
C16_CalibrationImmutable ==
    [][/\ (pc = "loop") => (calibration' = calibration)
       /\ (calibration' # calibration) => (pc = "setup_ready")]_vars

\* C16 witness: a processed frame with an in-range reading that differs from
\* the calibrated value of its zone, the calibration still the one of setup().
C16_Witness ==
    /\ Processed
    /\ \E i \in Cells :
          /\ measurementData.distance_mm[i] \in 1 .. MAX_CALIBRATION
          /\ calibration[i] \in 1 .. MAX_CALIBRATION
          /\ calibration[i] # measurementData.distance_mm[i]

(***************************************************************************)
(* C17: the range of the eye commands                                      *)
(***************************************************************************)
Percent == 0 .. 100

\* C17: on an 8x8 grid every pan and tilt loop() passes to moveEyes and every
\* percentage it passes to moveEyeLids is within 0 .. 100.
C17_EyeRange ==
    (pc = "loop" /\ imageWidth = 8 /\ tick # "none") =>
        \A k \in DOMAIN calls :
            /\ calls[k][1] = "moveEyes" => (calls[k][2] \in Percent /\ calls[k][3] \in Percent)
            /\ calls[k][1] = "moveEyeLids" => calls[k][2] \in Percent

\* C17 witness: a focus in the last interior column and row of the 8x8 grid,
\* commanded at the ends of both ranges.
C17_Witness ==
    /\ Processed
    /\ imageWidth = 8
    /\ focusX = 6 /\ focusY = 6
    /\ calls = << <<"moveEyeLids", 100>>, <<"moveEyes", 100, 0>> >>

(***************************************************************************)
(* C18: the wait of setup() for the first frame                            *)
(***************************************************************************)
\* Spec with the two conditions under which setup() gets through its wait:
\* the sensor does report a ready frame at some poll, and the firmware, once
\* out of the do-while, runs on
SpecLive == Init /\ [][Next]_vars /\ WF_vars(SetupReady) /\ WF_vars(SetupCalibrate)

\* nothing of setup()'s calibration or of loop() has happened
NothingCaptured ==
    /\ calibration = [i \in Zones |-> 0]
    /\ tick = "none"
    /\ calls = << >>

\* C18: while setup() polls, no calibration is captured and no pass of loop()
\* runs; the poll loop is left only by a poll that finds a frame ready, and
\* loop() starts only after that; and if the sensor does report a ready frame,
\* setup() ends and the polling loop starts.
C18_SetupSpins ==
    /\ [](pc \in {"start", "setup_wait", "frozen"} => NothingCaptured)
    /\ [][/\ (pc = "setup_wait") => (pc' \in {"setup_wait", "setup_ready"})
          /\ (pc' = "loop") => (pc \in {"setup_ready", "loop"})]_vars
    /\ (pc = "setup_wait") ~> (pc = "loop")

\* C18 witness: setup() has ended after its wait, the calibration captured and
\* the eyes exercised, and no pass of loop() has run yet.
C18_Witness ==
    /\ pc = "loop"
    /\ tick = "none"
    /\ calls = SetupCalls
    /\ \A i \in Zones : calibration[i] \in 1 .. MAX_CALIBRATION

(***************************************************************************)
(* C19, C20: nearer than the calibration; ties                             *)
(***************************************************************************)
\* C19: the adjusted grid shows valid data only for readings closer than the
\* calibration: every cell with adjusted > 0 has distance_mm < calibration;
\* stated for calibrations within 1 .. 2000.
C19_ValidOnlyIfCloser ==
    (Processed /\ \A i \in Zones : calibration[i] \in 1 .. MAX_CALIBRATION) =>
        \A i \in Cells :
            adjustedData[i] > 0 => measurementData.distance_mm[i] < calibration[i]

\* C20: when several candidates share the smallest adjusted distance the POI
\* is the first of them in the scan, increasing y and within a row increasing
\* x: no candidate as near as the POI comes before it.
C20_FirstInRasterOrder ==
    (Processed /\ ~PoiNone) =>
        \A c \in Candidates :
            (adjustedData[c] = smallestValue) =>
                \/ YOf(c) > focusY
                \/ (YOf(c) = focusY /\ XOf(c) >= focusX)

\* C20 witness: the POI shares its distance with a candidate later in its own
\* row and with one in a later row.
C20_Witness ==
    /\ Processed
    /\ ~PoiNone
    /\ \E c \in Candidates :
          adjustedData[c] = smallestValue /\ YOf(c) = focusY /\ XOf(c) > focusX
    /\ \E c \in Candidates :
          adjustedData[c] = smallestValue /\ YOf(c) > focusY

(***************************************************************************)
(* C21: scoreZone and avgdistZone on the edges of the matrix               *)
(***************************************************************************)
\* a location on the edge of the grid: x = 0, x = N-1, y = 0 or y = N-1
OnEdge(location) ==
    \/ XOf(location) = 0 \/ XOf(location) = imageWidth - 1
    \/ YOf(location) = 0 \/ YOf(location) = imageWidth - 1

\* the functions were called on their own, on a location
Called == zoneCall # NoCall

\* C21: for every location on the edge of the grid scoreZone returns 0 without
\* reading any neighbour, and avgdistZone returns the cell's own value.
C21_EdgesNotHandled ==
    (Called /\ OnEdge(zoneCall.location)) =>
        /\ zoneCall.score = 0
        /\ zoneCall.reads = {}
        /\ zoneCall.avgDist = adjustedData[zoneCall.location]

(***************************************************************************)
(* C22: array bounds and the division of avgdistZone, in a processed pass  *)
(***************************************************************************)
\* every thisZone = y*imageWidth + x of the scan of loop()
ScanZones ==
    {ScanY(k, imageWidth) * imageWidth + ScanX(k, imageWidth) :
        k \in 1 .. ScanCount(imageWidth)}

\* the indices of adjustedData the scan reads: in the two calls and in the
\* focus test
ScanReads ==
    UNION {AvgReads(z, adjustedData, imageWidth) \cup ScoreReads(z, imageWidth) \cup {z} :
              z \in ScanZones}

\* the zones of the scan for which avgdistZone reaches avgDist = totalDist / numZones
Divides(z) ==
    /\ ~IsEdgeTest(z % imageWidth, z \div imageWidth, imageWidth)
    /\ adjustedData[z] > 0

\* 0 .. N*N-1
GridIndices == 0 .. (imageWidth * imageWidth - 1)

\* C22: in a processed pass every index of adjustedData that scoreZone and
\* avgdistZone read when loop() calls them, and every index of adjustedData and
\* secondTable that is written, lies in 0..N*N-1, and numZones >= 1 whenever
\* avgdistZone divides.
C22_ArrayBounds ==
    Processed =>
        /\ ScanReads \subseteq GridIndices
        /\ DOMAIN adjustedData \subseteq GridIndices
        /\ (DOMAIN secondTable) \cup ScanZones \subseteq GridIndices
        /\ \A z \in ScanZones :
              Divides(z) =>
                  CountValid(z % imageWidth, z \div imageWidth, adjustedData, imageWidth) >= 1

\* C22 witness: a processed 8x8 pass whose scan reads the corner zones 0 and 63
\* and divides in every one of its 36 zones, with a focus found
C22_Witness ==
    /\ Processed
    /\ imageWidth = 8
    /\ {0, 63} \subseteq ScanReads
    /\ \A z \in ScanZones : Divides(z)
    /\ secondTable[ZoneOf(6, 6)] > 0
    /\ ~PoiNone

====
